---- MODULE Spec2Model ----
(***************************************************************************)
(* Model of src/app.py: the OptimizedZIPPasswordCracker pipeline.          *)
(* One coordinator (crack_password_multiprocess) streams the candidates    *)
(* of fast_password_generator into password_queue; max_workers processes   *)
(* (worker_process) dequeue, test and publish to result_queue.             *)
(* A password is a sequence of one-character strings.  The queues are      *)
(* manager.Queue() proxies: unbounded FIFO, every put/get/empty atomic.    *)
(* The progress thread (update_progress) only drains progress_queue into   *)
(* the bar; progress_queue counts the signals put.  Spec leaves the thread *)
(* out and takes a test with its signal as one step; SpecProgress runs the *)
(* thread and takes the test and the put of its signal as two steps.       *)
(***************************************************************************)
EXTENDS Integers, Sequences, FiniteSets, TLC

\* ------------------------------------------------------------------ bounds
\* the largest number of worker processes (multiprocessing.cpu_count())
MaxWorkers == 2

\* how many symbols of self.charset the brute-force phase enumerates over
CharsetSize == 2

\* the generator alone: the most words of a dictionary, the largest length
GenMaxWords == 2

GenMaxLength == 2

\* ------------------------------------------------------- python str helpers
ascii_lowercase ==
  <<"a","b","c","d","e","f","g","h","i","j","k","l","m",
    "n","o","p","q","r","s","t","u","v","w","x","y","z">>

ascii_uppercase ==
  <<"A","B","C","D","E","F","G","H","I","J","K","L","M",
    "N","O","P","Q","R","S","T","U","V","W","X","Y","Z">>

digits == <<"0","1","2","3","4","5","6","7","8","9">>

punctuation == <<"!","@","#","$","%","^","&","*">>

\* str.upper() on one character
upper_char(c) ==
  IF \E i \in 1..26 : ascii_lowercase[i] = c
  THEN ascii_uppercase[CHOOSE i \in 1..26 : ascii_lowercase[i] = c]
  ELSE c

\* str.lower() on one character
lower_char(c) ==
  IF \E i \in 1..26 : ascii_uppercase[i] = c
  THEN ascii_lowercase[CHOOSE i \in 1..26 : ascii_uppercase[i] = c]
  ELSE c

\* str.upper()
str_upper(s) == [i \in 1..Len(s) |-> upper_char(s[i])]

\* str.capitalize(): first character upper-cased, the rest lower-cased
str_capitalize(s) ==
  [i \in 1..Len(s) |-> IF i = 1 THEN upper_char(s[i]) ELSE lower_char(s[i])]

\* ------------------------------------------------------------ __init__ data
\* self.charset: lowercase + uppercase + digits + '!@#$%^&*'
full_charset == ascii_lowercase \o ascii_uppercase \o digits \o punctuation

\* the model enumerates over the first CharsetSize symbols of self.charset
charset == SubSeq(full_charset, 1, CharsetSize)

\* the values of -l / --length the model runs with
Lengths == {0, 1}

\* the sentinel of iter(password_queue.get, 'STOP')
STOP == <<"S","T","O","P">>

\* words load_dictionary can return: one of the built-in list and one
\* line of a custom dictionary file
word_1234 == <<"1","2","3","4">>

word_stop == <<"s","t","o","p">>

WordPool == {word_1234, word_stop}

\* for the generator alone: another built-in word and a custom line that is
\* also a brute-force string
word_admin == <<"a","d","m","i","n">>

word_ab == <<"a","b">>

GenWordPool == {word_1234, word_stop, word_admin, word_ab}

suffixes == << <<"1","2","3">>, <<"!">>, <<"1","2","3","!">>, <<"2","0","2","4">> >>

\* list(set(default_passwords)): the words without duplicates, in an order
\* the hash seed decides; the model loads one word
load_dictionary ==
  {d \in [1..1 -> WordPool] : \A i, j \in 1..Len(d) : i # j => d[i] # d[j]}

\* ------------------------------------------------------- candidate source
generate_password_variations(base_password) ==
  <<base_password, str_capitalize(base_password), str_upper(base_password)>>
  \o [k \in 1..Len(suffixes) |-> base_password \o suffixes[k]]

RECURSIVE Flatten(_)
Flatten(ss) == IF ss = <<>> THEN <<>> ELSE Head(ss) \o Flatten(Tail(ss))

\* itertools.product(charset, repeat=length), joined: odometer order, the
\* last position turning fastest
RECURSIVE generate_passwords_fast(_, _)
\* a product that takes the first symbol in every turn of the first position
generate_passwords_fast_repeating(length, cs) ==
  IF length = 0 THEN << <<>> >>
  ELSE LET rest == generate_passwords_fast(length - 1, cs)
       IN Flatten([i \in 1..Len(cs) |->
                     [j \in 1..Len(rest) |-> <<cs[1]>> \o rest[j]]])

generate_passwords_fast(length, cs) ==
  IF length = 0 THEN << <<>> >>
  ELSE LET rest == generate_passwords_fast(length - 1, cs)
       IN Flatten([i \in 1..Len(cs) |->
                     [j \in 1..Len(rest) |-> <<cs[i]>> \o rest[j]]])

\* a generator that runs the brute-force phase first
fast_password_generator_brute_first(dict, maxlen) ==
  Flatten([l \in 1..(IF maxlen > 0 THEN maxlen ELSE 0) |->
             generate_passwords_fast(l, charset)])
  \o Flatten([i \in 1..Len(dict) |-> generate_password_variations(dict[i])])

\* everything the generator yields, in order: the dictionary phase, then
\* lengths 1..max_length
fast_password_generator(dict, maxlen) ==
  Flatten([i \in 1..Len(dict) |-> generate_password_variations(dict[i])])
  \o Flatten([l \in 1..(IF maxlen > 0 THEN maxlen ELSE 0) |->
                generate_passwords_fast(l, charset)])

Range(s) == {s[i] : i \in 1..Len(s)}

RECURSIVE Power(_, _)
Power(b, e) == IF e <= 0 THEN 1 ELSE b * Power(b, e - 1)

RECURSIVE SumOver(_, _)
SumOver(f, n) == IF n <= 0 THEN 0 ELSE f[n] + SumOver(f, n - 1)

\* an estimate that leaves out the largest length
generate_total_passwords_short(dict, maxlen) ==
  SumOver([i \in 1..Len(dict) |-> Len(generate_password_variations(dict[i]))],
          Len(dict))
  + SumOver([l \in 1..(maxlen - 1) |-> Power(Len(charset), l)], maxlen - 1)

\* sum(len(variations(p)) for p in dictionary)
\*   + sum(len(charset) ** length for length in range(1, max_length + 1))
generate_total_passwords(dict, maxlen) ==
  SumOver([i \in 1..Len(dict) |-> Len(generate_password_variations(dict[i]))],
          Len(dict))
  + SumOver([l \in 1..maxlen |-> Power(Len(charset), l)], maxlen)

\* --------------------------------------------------------------- state
VARIABLES
  zip_readable,     \* pyzipper can open self.zip_path
  accepted,         \* the passwords that decrypt the first archive entry
  dictionary,       \* self.dictionary
  max_length,       \* self.max_length
  max_workers,      \* self.max_workers
  generator,        \* what fast_password_generator has still to yield
  password_queue,   \* work items: [val, idx]; idx = 0 for a coordinator STOP
  result_queue,     \* published passwords: [val, by]; by = the worker
  progress_queue,   \* number of signals put on progress_queue
  cpc,              \* position of crack_password_multiprocess
  stops,            \* 'STOP' items the coordinator has put
  found_password,   \* the value crack_password_multiprocess returns
  wpc,              \* position of each worker_process
  witem,            \* the work item a worker holds
  exited_on,        \* history: why a worker left its loop
  tested,           \* history: number of tests per candidate position
  pushed_after,     \* history: candidates put after the first publication
  backlog,          \* history: candidates queued at the first publication
  published_at,     \* history: the coordinator's phase at that moment
  post_tests,       \* history: tests a worker completed after it
  wresult,          \* result of a worker's test, until its signal is put
  progress_got,     \* number of signals update_progress has dequeued
  pbar,             \* pbar.n, the counter of the progress bar
  tpc,              \* position of the update_progress thread
  progress_thread_stop  \* the flag that ends update_progress

vars == <<zip_readable, accepted, dictionary, max_length, max_workers,
          generator, password_queue, result_queue, progress_queue, cpc,
          stops, found_password, wpc, witem, exited_on, tested,
          pushed_after, backlog, published_at, post_tests, wresult,
          progress_got, pbar, tpc, progress_thread_stop>>

inputs == <<zip_readable, accepted, dictionary, max_length, max_workers>>

coord_vars == <<generator, cpc, stops, found_password>>

worker_vars == <<wpc, witem, exited_on>>

thread_vars == <<wresult, progress_got, pbar, tpc, progress_thread_stop>>

Workers == 1..max_workers

None == <<"None">>

NoItem == [val |-> None, idx |-> 0]

Candidates == fast_password_generator(dictionary, max_length)

NumCandidates == Len(Candidates)

\* number of candidates already yielded and put
cursor == NumCandidates - Len(generator)

published == result_queue # <<>>

candidates_queued == Cardinality({i \in 1..Len(password_queue) : password_queue[i].idx > 0})

\* ------------------------------------------------------- construction
InitWith(workerCounts) ==
  /\ zip_readable \in BOOLEAN
  /\ dictionary \in load_dictionary
  /\ max_length \in Lengths
  /\ max_workers \in workerCounts
  /\ generator = fast_password_generator(dictionary, max_length)
  \* the archive entry decrypts under no candidate, under one, or (a stub
  \* tester) under the last two; under none when it cannot be opened
  /\ accepted \in {a \in SUBSET Range(fast_password_generator(dictionary, max_length)) :
                     /\ \/ Cardinality(a) <= 1
                        \/ a = {generator[Len(generator) - 1], generator[Len(generator)]}
                     /\ (~zip_readable => a = {})}
  /\ password_queue = <<>>
  /\ result_queue = <<>>
  /\ progress_queue = 0
  /\ cpc = "idle"
  /\ stops = 0
  /\ found_password = None
  /\ wpc = [w \in 1..MaxWorkers |-> "unborn"]
  /\ witem = [w \in 1..MaxWorkers |-> NoItem]
  /\ exited_on = [w \in 1..MaxWorkers |-> "none"]
  /\ tested = [i \in 1..Len(generator) |-> 0]
  /\ pushed_after = 0
  /\ backlog = 0
  /\ published_at = "never"
  /\ post_tests = [w \in 1..MaxWorkers |-> 0]
  /\ wresult = [w \in 1..MaxWorkers |-> FALSE]
  /\ progress_got = 0
  /\ pbar = 0
  /\ tpc = "check"
  /\ progress_thread_stop = FALSE

\* __init__: max_workers = multiprocessing.cpu_count()
Init == InitWith(1..MaxWorkers)

\* ------------------------------------------------------- test_password_fast
\* any exception (unreadable archive, wrong password) is False
test_password_fast(password) == zip_readable /\ password \in accepted

\* ------------------------------------------------------- worker_process
\* password_queue.get(), compared with 'STOP' by iter()
worker_get(w) ==
  /\ wpc[w] = "get"
  /\ password_queue # <<>>
  /\ LET item == Head(password_queue) IN
       /\ password_queue' = Tail(password_queue)
       /\ IF item.val = STOP
          THEN /\ wpc' = [wpc EXCEPT ![w] = "done"]
               /\ exited_on' = [exited_on EXCEPT ![w] =
                                  IF item.idx = 0 THEN "sentinel" ELSE "candidate"]
               /\ UNCHANGED witem
          ELSE /\ wpc' = [wpc EXCEPT ![w] = "test"]
               /\ witem' = [witem EXCEPT ![w] = item]
               /\ UNCHANGED exited_on
  /\ UNCHANGED <<inputs, thread_vars, coord_vars, result_queue, progress_queue,
                 tested, pushed_after, backlog, published_at, post_tests>>

\* a tester whose fault ends the worker
worker_test_raises(w) ==
  /\ wpc[w] = "test"
  /\ tested' = [tested EXCEPT ![witem[w].idx] = @ + 1]
  /\ post_tests' = [post_tests EXCEPT ![w] = IF published THEN @ + 1 ELSE @]
  /\ progress_queue' = progress_queue + 1
  /\ wpc' = [wpc EXCEPT ![w] =
               IF test_password_fast(witem[w].val) THEN "publish" ELSE "done"]
  /\ UNCHANGED <<inputs, thread_vars, coord_vars, password_queue,
                 result_queue, witem, exited_on, pushed_after, backlog,
                 published_at>>

\* a worker that publishes whatever it tested
worker_test_publishes_failures(w) ==
  /\ wpc[w] = "test"
  /\ tested' = [tested EXCEPT ![witem[w].idx] = @ + 1]
  /\ post_tests' = [post_tests EXCEPT ![w] = IF published THEN @ + 1 ELSE @]
  /\ progress_queue' = progress_queue + 1
  /\ wpc' = [wpc EXCEPT ![w] = "publish"]
  /\ UNCHANGED <<inputs, thread_vars, coord_vars, password_queue,
                 result_queue, witem, exited_on, pushed_after, backlog,
                 published_at>>

\* result = self.test_password_fast(password); progress_queue.put(1);
\* if result: ... else the next iteration
worker_test(w) ==
  /\ wpc[w] = "test"
  /\ tested' = [tested EXCEPT ![witem[w].idx] = @ + 1]
  /\ post_tests' = [post_tests EXCEPT ![w] = IF published THEN @ + 1 ELSE @]
  /\ progress_queue' = progress_queue + 1
  /\ wpc' = [wpc EXCEPT ![w] =
               IF test_password_fast(witem[w].val) THEN "publish" ELSE "get"]
  /\ UNCHANGED <<inputs, thread_vars, coord_vars, password_queue, result_queue, witem,
                 exited_on, pushed_after, backlog, published_at>>

\* a publication that displaces the earlier ones
worker_publish_first(w) ==
  /\ wpc[w] = "publish"
  /\ result_queue' = <<[val |-> witem[w].val, by |-> w]>> \o result_queue
  /\ backlog' = IF published THEN backlog ELSE candidates_queued
  /\ published_at' = IF published THEN published_at
                     ELSE IF cpc \in {"stop", "join"} THEN "draining"
                     ELSE "running"
  /\ wpc' = [wpc EXCEPT ![w] = "done"]
  /\ exited_on' = [exited_on EXCEPT ![w] = "found"]
  /\ UNCHANGED <<inputs, thread_vars, coord_vars, password_queue, progress_queue, witem,
                 tested, pushed_after, post_tests>>

\* result_queue.put(password); break
worker_publish(w) ==
  /\ wpc[w] = "publish"
  /\ result_queue' = Append(result_queue, [val |-> witem[w].val, by |-> w])
  /\ backlog' = IF published THEN backlog ELSE candidates_queued
  /\ published_at' = IF published THEN published_at
                     ELSE IF cpc \in {"stop", "join"} THEN "draining"
                     ELSE "running"
  /\ wpc' = [wpc EXCEPT ![w] = "done"]
  /\ exited_on' = [exited_on EXCEPT ![w] = "found"]
  /\ UNCHANGED <<inputs, thread_vars, coord_vars, password_queue, progress_queue, witem,
                 tested, pushed_after, post_tests>>

worker_process(w) ==
  \/ worker_get(w)
  \/ worker_test(w)
  \/ worker_publish(w)

\* ------------------------------------------- crack_password_multiprocess
\* for _ in range(self.max_workers): Process(...).start()
start_workers ==
  /\ cpc = "idle"
  /\ cpc' = "produce"
  /\ wpc' = [w \in 1..MaxWorkers |-> IF w \in Workers THEN "get" ELSE wpc[w]]
  /\ UNCHANGED <<inputs, thread_vars, generator, stops, found_password, password_queue,
                 result_queue, progress_queue, witem, exited_on,
                 tested, pushed_after, backlog, published_at, post_tests>>

\* next(generator); password_queue.put(password) -- or the loop ends
put_password ==
  /\ cpc = "produce"
  /\ IF generator # <<>>
     THEN /\ password_queue' = Append(password_queue,
                                 [val |-> Head(generator), idx |-> cursor + 1])
          /\ generator' = Tail(generator)
          /\ pushed_after' = IF published THEN pushed_after + 1 ELSE pushed_after
          /\ cpc' = "check"
     ELSE /\ cpc' = "stop"
          /\ UNCHANGED <<password_queue, generator, pushed_after>>
  /\ UNCHANGED <<inputs, thread_vars, stops, found_password, result_queue, progress_queue,
                 worker_vars, tested, backlog, published_at, post_tests>>

\* a coordinator that leaves the loop after its first put
check_result_always_breaks ==
  /\ cpc = "check"
  /\ cpc' = "stop"
  /\ UNCHANGED <<inputs, thread_vars, generator, stops, found_password, password_queue,
                 result_queue, progress_queue, worker_vars, tested,
                 pushed_after, backlog, published_at, post_tests>>

\* a coordinator that never looks at result_queue
check_result_never_breaks ==
  /\ cpc = "check"
  /\ cpc' = "produce"
  /\ UNCHANGED <<inputs, thread_vars, generator, stops, found_password, password_queue,
                 result_queue, progress_queue, worker_vars, tested,
                 pushed_after, backlog, published_at, post_tests>>

\* a coordinator that looks at result_queue after every second put
check_result_every_second_put ==
  /\ cpc = "check"
  /\ cpc' = IF result_queue # <<>> /\ cursor % 2 = 0 THEN "stop"
            ELSE "produce"
  /\ UNCHANGED <<inputs, thread_vars, generator, stops, found_password,
                 password_queue, result_queue, progress_queue, worker_vars,
                 tested, pushed_after, backlog, published_at, post_tests>>

\* if not result_queue.empty(): break
check_result ==
  /\ cpc = "check"
  /\ cpc' = IF result_queue # <<>> THEN "stop" ELSE "produce"
  /\ UNCHANGED <<inputs, thread_vars, generator, stops, found_password, password_queue,
                 result_queue, progress_queue, worker_vars, tested,
                 pushed_after, backlog, published_at, post_tests>>

\* a coordinator that puts one 'STOP' too few
put_stop_one_short ==
  /\ cpc = "stop"
  /\ IF stops < max_workers - 1
     THEN /\ password_queue' = Append(password_queue, [val |-> STOP, idx |-> 0])
          /\ stops' = stops + 1
          /\ UNCHANGED cpc
     ELSE /\ cpc' = "join"
          /\ UNCHANGED <<password_queue, stops>>
  /\ UNCHANGED <<inputs, thread_vars, generator, found_password, result_queue,
                 progress_queue, worker_vars, tested, pushed_after, backlog, published_at,
                 post_tests>>

\* a coordinator that puts one 'STOP' too many
put_stop_one_more ==
  /\ cpc = "stop"
  /\ IF stops < max_workers + 1
     THEN /\ password_queue' = Append(password_queue, [val |-> STOP, idx |-> 0])
          /\ stops' = stops + 1
          /\ UNCHANGED cpc
     ELSE /\ cpc' = "join"
          /\ UNCHANGED <<password_queue, stops>>
  /\ UNCHANGED <<inputs, thread_vars, generator, found_password, result_queue,
                 progress_queue, worker_vars, tested, pushed_after, backlog,
                 published_at, post_tests>>

\* for _ in range(self.max_workers): password_queue.put('STOP')
put_stop ==
  /\ cpc = "stop"
  /\ IF stops < max_workers
     THEN /\ password_queue' = Append(password_queue, [val |-> STOP, idx |-> 0])
          /\ stops' = stops + 1
          /\ UNCHANGED cpc
     ELSE /\ cpc' = "join"
          /\ UNCHANGED <<password_queue, stops>>
  /\ UNCHANGED <<inputs, thread_vars, generator, found_password, result_queue,
                 progress_queue, worker_vars, tested, pushed_after, backlog, published_at,
                 post_tests>>

\* a coordinator that joins the first process only
join_processes_first_only ==
  /\ cpc = "join"
  /\ wpc[1] = "done"
  /\ cpc' = "collect"
  /\ UNCHANGED <<inputs, thread_vars, generator, stops, found_password,
                 password_queue, result_queue, progress_queue, worker_vars,
                 tested, pushed_after, backlog, published_at, post_tests>>

\* for p in processes: p.join()
join_processes ==
  /\ cpc = "join"
  /\ \A w \in Workers : wpc[w] = "done"
  /\ cpc' = "collect"
  /\ UNCHANGED <<inputs, thread_vars, generator, stops, found_password, password_queue,
                 result_queue, progress_queue, worker_vars, tested,
                 pushed_after, backlog, published_at, post_tests>>

\* found_password = result_queue.get(block=False), or None
get_result ==
  /\ cpc = "collect"
  /\ IF result_queue # <<>>
     THEN /\ found_password' = Head(result_queue).val
          /\ result_queue' = Tail(result_queue)
     ELSE /\ found_password' = None
          /\ UNCHANGED result_queue
  /\ cpc' = "done"
  /\ UNCHANGED <<inputs, thread_vars, generator, stops, password_queue, progress_queue,
                 worker_vars, tested, pushed_after, backlog, published_at, post_tests>>

crack_password_multiprocess ==
  \/ start_workers
  \/ put_password
  \/ check_result
  \/ put_stop
  \/ join_processes
  \/ get_result

Next ==
  \/ crack_password_multiprocess
  \/ \E w \in Workers : worker_process(w)

Spec == Init /\ [][Next]_vars

\* the operating system schedules the coordinator and every started process
Fairness ==
  /\ WF_vars(crack_password_multiprocess)
  /\ \A w \in 1..MaxWorkers : WF_vars(worker_process(w))

FairSpec == Init /\ [][Next]_vars /\ Fairness

\* max_workers is a plain attribute: a caller may set any count, also 0
InitAnyWorkers == InitWith(0..MaxWorkers)

SpecAnyWorkers == InitAnyWorkers /\ [][Next]_vars

\* ------------------------------------------------ the progress thread
\* worker_process, the test alone: result = self.test_password_fast(password)
worker_test_only(w) ==
  /\ wpc[w] = "test"
  /\ wresult' = [wresult EXCEPT ![w] = test_password_fast(witem[w].val)]
  /\ tested' = [tested EXCEPT ![witem[w].idx] = @ + 1]
  /\ post_tests' = [post_tests EXCEPT ![w] = IF published THEN @ + 1 ELSE @]
  /\ wpc' = [wpc EXCEPT ![w] = "progress"]
  /\ UNCHANGED <<inputs, coord_vars, password_queue, result_queue,
                 progress_queue, witem, exited_on, pushed_after, backlog, published_at,
                 progress_got, pbar, tpc, progress_thread_stop>>

\* a worker that signals only its failed attempts
worker_progress_failures_only(w) ==
  /\ wpc[w] = "progress"
  /\ progress_queue' = IF wresult[w] THEN progress_queue
                       ELSE progress_queue + 1
  /\ wpc' = [wpc EXCEPT ![w] = IF wresult[w] THEN "publish" ELSE "get"]
  /\ UNCHANGED <<inputs, coord_vars, password_queue, result_queue, witem,
                 exited_on, tested, pushed_after, backlog, published_at, post_tests,
                 thread_vars>>

\* worker_process: progress_queue.put(1); if result: ... else next iteration
worker_progress(w) ==
  /\ wpc[w] = "progress"
  /\ progress_queue' = progress_queue + 1
  /\ wpc' = [wpc EXCEPT ![w] = IF wresult[w] THEN "publish" ELSE "get"]
  /\ UNCHANGED <<inputs, coord_vars, password_queue, result_queue, witem,
                 exited_on, tested, pushed_after, backlog, published_at, post_tests,
                 thread_vars>>

worker_process_steps(w) ==
  \/ worker_get(w)
  \/ worker_test_only(w)
  \/ worker_progress(w)
  \/ worker_publish(w)

\* the thread is started before the first put
thread_started == cpc # "idle"

\* while not progress_thread_stop:
update_progress_check ==
  /\ thread_started
  /\ tpc = "check"
  /\ tpc' = IF progress_thread_stop THEN "done" ELSE "get"
  /\ UNCHANGED <<inputs, coord_vars, worker_vars, password_queue,
                 result_queue, progress_queue, tested, pushed_after, backlog, published_at,
                 post_tests, wresult, progress_got, pbar,
                 progress_thread_stop>>

\* a thread that advances the bar after a timeout as well
update_progress_get_counts_timeouts ==
  /\ tpc = "get"
  /\ progress_got' = IF progress_got < progress_queue THEN progress_got + 1
                     ELSE progress_got
  /\ tpc' = "update"
  /\ UNCHANGED <<inputs, coord_vars, worker_vars, password_queue,
                 result_queue, progress_queue, tested, pushed_after, backlog, published_at,
                 post_tests, wresult, pbar, progress_thread_stop>>

\* progress_queue.get(timeout=1): a signal, or queue.Empty after the timeout
update_progress_get ==
  /\ tpc = "get"
  /\ IF progress_got < progress_queue
     THEN /\ progress_got' = progress_got + 1
          /\ tpc' = "update"
     ELSE /\ tpc' = "check"
          /\ UNCHANGED progress_got
  /\ UNCHANGED <<inputs, coord_vars, worker_vars, password_queue,
                 result_queue, progress_queue, tested, pushed_after, backlog, published_at,
                 post_tests, wresult, pbar, progress_thread_stop>>

\* pbar.update(1)
update_progress_update ==
  /\ tpc = "update"
  /\ pbar' = pbar + 1
  /\ tpc' = "check"
  /\ UNCHANGED <<inputs, coord_vars, worker_vars, password_queue,
                 result_queue, progress_queue, tested, pushed_after, backlog, published_at,
                 post_tests, wresult, progress_got, progress_thread_stop>>

update_progress ==
  \/ update_progress_check
  \/ update_progress_get
  \/ update_progress_update

\* progress_thread_stop = True, once every process is joined
stop_progress_thread ==
  /\ cpc = "collect"
  /\ ~progress_thread_stop
  /\ progress_thread_stop' = TRUE
  /\ UNCHANGED <<inputs, coord_vars, worker_vars, password_queue,
                 result_queue, progress_queue, tested, pushed_after, backlog, published_at,
                 post_tests, wresult, progress_got, pbar, tpc>>

\* progress_thread.join(), then the result is taken
get_result_after_thread ==
  /\ progress_thread_stop
  /\ tpc = "done"
  /\ get_result

crack_password_multiprocess_steps ==
  \/ start_workers
  \/ put_password
  \/ check_result
  \/ put_stop
  \/ join_processes
  \/ stop_progress_thread
  \/ get_result_after_thread

NextProgress ==
  \/ crack_password_multiprocess_steps
  \/ \E w \in Workers : worker_process_steps(w)
  \/ update_progress

\* runs without --length candidates: the signals are counted in the same way
\* for a dictionary candidate and for a brute-force one
InitProgress == Init /\ max_length = 0

SpecProgress == InitProgress /\ [][NextProgress]_vars

\* ------------------------------------------------ the generator alone
\* the dictionaries of up to GenMaxWords distinct words, in any order
GenDictionaries ==
  {d \in UNION {[1..n -> GenWordPool] : n \in 1..GenMaxWords} :
     \A i, j \in 1..Len(d) : i # j => d[i] # d[j]}

\* any dictionary and any --length, also none and a negative one; no process
\* runs, password_queue collects what the generator yields
InitGenerator ==
  /\ zip_readable = TRUE
  /\ dictionary \in GenDictionaries
  /\ max_length \in (-1)..GenMaxLength
  /\ max_workers = 1
  /\ generator = fast_password_generator(dictionary, max_length)
  /\ accepted = {}
  /\ password_queue = <<>>
  /\ result_queue = <<>>
  /\ progress_queue = 0
  /\ cpc = "idle"
  /\ stops = 0
  /\ found_password = None
  /\ wpc = [w \in 1..MaxWorkers |-> "unborn"]
  /\ witem = [w \in 1..MaxWorkers |-> NoItem]
  /\ exited_on = [w \in 1..MaxWorkers |-> "none"]
  /\ tested = [i \in 1..Len(generator) |-> 0]
  /\ pushed_after = 0
  /\ backlog = 0
  /\ published_at = "never"
  /\ post_tests = [w \in 1..MaxWorkers |-> 0]
  /\ wresult = [w \in 1..MaxWorkers |-> FALSE]
  /\ progress_got = 0
  /\ pbar = 0
  /\ tpc = "check"
  /\ progress_thread_stop = FALSE

\* next(generator): the generator runs to its next yield
generator_next ==
  /\ generator # <<>>
  /\ password_queue' = Append(password_queue,
                         [val |-> Head(generator), idx |-> cursor + 1])
  /\ generator' = Tail(generator)
  /\ UNCHANGED <<inputs, thread_vars, worker_vars, result_queue,
                 progress_queue, cpc, stops, found_password, tested,
                 pushed_after, backlog, published_at, post_tests>>

NextGenerator == generator_next

SpecGenerator == InitGenerator /\ [][NextGenerator]_vars

\* ------------------------------------------------------------- claims

\* the candidate positions at which a lone worker stops: a candidate that
\* reads as the sentinel, or one the tester accepts
StopPositions ==
  {i \in 1..NumCandidates :
     Candidates[i] = STOP \/ test_password_fast(Candidates[i])}

\* what the pipeline returns with one worker, which takes the candidates in
\* queue order
OneWorkerResult ==
  IF StopPositions = {} THEN None
  ELSE LET i == CHOOSE k \in StopPositions : \A j \in StopPositions : k <= j
       IN IF Candidates[i] = STOP THEN None ELSE Candidates[i]

\* C1: when the tester accepts a password P that the generator yields, the
\* search returns exactly P, whatever the worker count and the interleaving.
C1_ReturnsAcceptedPassword ==
  (cpc = "done" /\ accepted # {}) => found_password \in accepted

\* C2: when the tester accepts no candidate, the search terminates, it
\* returns None, and by then the generator has ended: every candidate of the
\* sequence was put on password_queue.
C2_NotFoundAfterExhaustion ==
  (accepted = {}) =>
    /\ <>(cpc = "done")
    /\ [](cpc = "done" => found_password = None /\ generator = <<>>)

C2_Witness ==
  /\ cpc = "done"
  /\ zip_readable
  /\ accepted = {}
  /\ max_workers = 2
  /\ max_length = 1
  /\ found_password = None
  /\ generator = <<>>

\* C3: once the coordinator has put its sentinels and waits in join, every
\* worker leaves its loop and the join completes, whatever candidates are
\* still queued.
C3_WorkersExit ==
  (cpc = "join") ~> ((\A w \in Workers : wpc[w] = "done") /\ cpc # "join")

C3_Witness ==
  /\ cpc = "done"
  /\ max_workers = 2
  /\ \E w \in Workers : exited_on[w] = "found"
  /\ backlog >= 2
  /\ \E w \in Workers : exited_on[w] = "sentinel" /\ post_tests[w] >= 2

\* C4: every candidate put on password_queue is tested at most once, and
\* when the search ends without a result every candidate was tested exactly
\* once.
C4_TestedExactlyOnce ==
  /\ \A i \in 1..NumCandidates : tested[i] <= 1
  /\ (cpc = "done" /\ found_password = None) =>
        \A i \in 1..NumCandidates : tested[i] = 1

\* C5: a worker leaves its loop without testing only for a sentinel the
\* coordinator put, never for a value the generator yielded.
C5_OnlySentinelStops ==
  \A w \in 1..MaxWorkers : exited_on[w] # "candidate"

\* C6 as stated: the result collector holds at most one published password.
C6_SingleAssignment == Len(result_queue) <= 1

\* C6 as amended: result_queue may hold one publication per worker, but the
\* first publication stays at its head until the coordinator collects it,
\* and its value is what the coordinator returns.
C6_FirstPublishedWins ==
  /\ [](/\ Len(result_queue) <= max_workers
        /\ \A i, j \in 1..Len(result_queue) :
              i # j => result_queue[i].by # result_queue[j].by)
  /\ [][result_queue # <<>> =>
          IF cpc = "collect"
          THEN found_password' = Head(result_queue).val
          ELSE /\ result_queue' # <<>>
               /\ Head(result_queue') = Head(result_queue)]_vars

C6_Witness ==
  /\ cpc = "done"
  /\ found_password \in accepted
  /\ Len(result_queue) >= 1
  /\ Head(result_queue).val # found_password
  /\ Cardinality({w \in Workers : exited_on[w] = "found"}) >= 2

\* C7: with a tester that accepts one known candidate, the pipeline returns
\* for every worker count what it returns with one worker.
C7_SameResultAsOneWorker ==
  (cpc = "done" /\ Cardinality(accepted) = 1) => found_password = OneWorkerResult

\* C8 as stated: after the first publication a worker tests no more than
\* the candidate it already held and the one candidate the coordinator may
\* still put, however many candidates were queued.
C8_BoundIndependentOfBacklog ==
  \A w \in Workers : post_tests[w] <= 2

\* C8 as amended: after the first publication a worker tests at most the
\* candidates queued at that moment, plus the one it held, plus the one the
\* coordinator may still put.
C8_BoundedByBacklog ==
  \A w \in Workers : post_tests[w] <= backlog + 2

C8_Witness ==
  \E w \in Workers :
    /\ exited_on[w] = "sentinel"
    /\ backlog >= 2
    /\ post_tests[w] = backlog + 2

\* C9: with max_workers = 0 the coordinator enumerates no candidate and
\* does not end with the outcome "not found".
C9_ZeroWorkersFailFast ==
  (max_workers = 0) => (cursor = 0 /\ cpc # "done")

\* C10: with an unreadable archive no worker is started, no candidate is
\* tested and the search does not end with the outcome "not found".
C10_UnreadableArchiveIsSetupError ==
  (~zip_readable) =>
    /\ \A w \in 1..MaxWorkers : wpc[w] = "unborn"
    /\ \A i \in 1..NumCandidates : tested[i] = 0
    /\ cpc # "done"

\* the attempts completed so far: every call of test_password_fast that
\* returned
attempts_completed == SumOver(tested, Len(tested))

\* the workers between the return of the test and progress_queue.put(1)
signal_pending == {w \in Workers : wpc[w] = "progress"}

\* C11 as stated: in every state the progress queue has received exactly one
\* signal per completed attempt.
C11_SignalPerAttempt == progress_queue = attempts_completed

\* C11 amended: the signals put are the completed attempts less the attempts
\* whose worker is between the return of the test and its put (at most one
\* per worker), whatever the outcome; nothing else puts a signal, and once
\* every worker has exited the two numbers are equal.
C11_SignalFollowsAttempt ==
  /\ progress_queue + Cardinality(signal_pending) = attempts_completed
  /\ (\A w \in Workers : wpc[w] = "done")
       => progress_queue = attempts_completed

\* a finished run with a success, failures and a worker that took a sentinel
C11_Witness ==
  /\ cpc = "done"
  /\ found_password # None
  /\ \E w \in Workers : exited_on[w] = "sentinel"
  /\ attempts_completed >= 3
  /\ progress_queue = attempts_completed

\* the counter is at most the signals taken, those at most the signals put,
\* those at most the attempts completed, and the counter at most the estimate
counter_bounded ==
  /\ pbar <= progress_got
  /\ progress_got <= progress_queue
  /\ progress_queue <= attempts_completed
  /\ pbar <= generate_total_passwords(dictionary, max_length)

\* C18: the displayed counter never decreases, grows by one at a time and
\* only in the thread's pbar.update(1) after it took a signal, and never
\* exceeds the signals taken, the signals put, the attempts completed or the
\* estimated total.
C18_CounterMonotonic ==
  /\ []counter_bounded
  /\ [][/\ pbar' \in {pbar, pbar + 1}
        /\ pbar' # pbar => /\ tpc = "update"
                           /\ tpc' = "check"
                           /\ progress_got >= pbar']_vars

\* every attempt of a run that tested the whole estimate is displayed
C18_Witness ==
  /\ tpc = "done"
  /\ cpc = "done"
  /\ pbar = attempts_completed
  /\ pbar = generate_total_passwords(dictionary, max_length)
  /\ max_workers = MaxWorkers

\* what the generator has yielded so far, in order
yielded == [i \in 1..Len(password_queue) |-> password_queue[i].val]

\* the items of the dictionary phase: seven for every base word
dictionary_items == 7 * Len(dictionary)

\* the base word and the place among its variations of a dictionary item
word_of(i) == ((i - 1) \div 7) + 1

place_of(i) == ((i - 1) % 7) + 1

\* C12 as stated: the generator never yields a value twice.
C12_NonRepeating ==
  \A i, j \in 1..Len(yielded) : i < j => yielded[i] # yielded[j]

\* C12 amended: the brute-force phase yields no value twice, and a suffixed
\* variation of a base word differs from every earlier variation of that
\* word; a value is yielded again only as the capitalized or upper-cased
\* form of a word these leave unchanged, as a variation of another base
\* word, or as a brute-force string that was a dictionary variation.
C12_RepeatsOnlyFromVariations ==
  \A i, j \in 1..Len(yielded) :
    (i < j /\ yielded[i] = yielded[j]) =>
      /\ i <= dictionary_items
      /\ (j <= dictionary_items /\ word_of(i) = word_of(j))
           => place_of(j) <= 3

\* an exhausted generator whose brute-force phase yielded a string that the
\* dictionary phase had yielded, and whose dictionary phase yielded a word
\* three times in a row
C12_Witness ==
  /\ generator = <<>>
  /\ \E i, j \in 1..Len(yielded) :
       /\ i <= dictionary_items
       /\ j > dictionary_items
       /\ yielded[i] = yielded[j]
  /\ \E i \in 1..Len(yielded) :
       /\ i + 2 <= dictionary_items
       /\ place_of(i) = 1
       /\ yielded[i] = yielded[i + 1]
       /\ yielded[i] = yielded[i + 2]

\* C13: the estimate the code computes is 7|D| + sum over 1..L of |C|^l (the
\* sum empty for L <= 0), and it is the number of candidates the generator
\* yields when run to exhaustion.
C13_EstimateIsExact ==
  /\ generate_total_passwords(dictionary, max_length)
       = 7 * Len(dictionary)
         + SumOver([l \in 1..max_length |-> Power(Len(charset), l)],
                   max_length)
  /\ Len(yielded) + Len(generator)
       = generate_total_passwords(dictionary, max_length)
  /\ generator = <<>>
       => Len(yielded) = generate_total_passwords(dictionary, max_length)

\* an exhausted generator with the most words and the largest length
C13_Witness ==
  /\ generator = <<>>
  /\ Len(dictionary) = GenMaxWords
  /\ max_length = GenMaxLength
  /\ Len(yielded) = generate_total_passwords(dictionary, max_length)
  /\ Len(yielded) > dictionary_items

\* the length of the brute-force string at place i
brute_length(i) == Len(yielded[i])

\* C16: the items of the dictionary phase come first, base word by base word
\* in dictionary order, each word's variations in the order original,
\* capitalized, upper-cased, +123, +!, +123!, +2024; every brute-force item
\* comes after them, the strings of length l before those of length l + 1.
C16_PhasesInOrder ==
  /\ \A i \in 1..Len(yielded) :
       i <= dictionary_items =>
         LET w == dictionary[word_of(i)]
         IN yielded[i] =
              CASE place_of(i) = 1 -> w
                [] place_of(i) = 2 -> str_capitalize(w)
                [] place_of(i) = 3 -> str_upper(w)
                [] place_of(i) = 4 -> w \o <<"1","2","3">>
                [] place_of(i) = 5 -> w \o <<"!">>
                [] place_of(i) = 6 -> w \o <<"1","2","3","!">>
                [] place_of(i) = 7 -> w \o <<"2","0","2","4">>
  /\ \A i \in 1..Len(yielded) :
       dictionary_items < i =>
         /\ brute_length(i) \in 1..max_length
         /\ Range(yielded[i]) \subseteq Range(charset)
         /\ \A j \in 1..Len(yielded) :
              i < j => brute_length(i) <= brute_length(j)

\* an exhausted generator that ran both phases, two words and two lengths
C16_Witness ==
  /\ generator = <<>>
  /\ Len(dictionary) >= 2
  /\ Len(yielded) >= dictionary_items + 2
  /\ brute_length(dictionary_items + 1) < brute_length(Len(yielded))

\* the sentinels the coordinator has put that are still queued
sentinels_queued ==
  Cardinality({i \in 1..Len(password_queue) : password_queue[i].idx = 0})

\* C14: the coordinator puts a sentinel only after it has stopped pulling from
\* the generator, one sentinel at a time up to exactly max_workers before it
\* joins, and after the first sentinel it pulls and pushes no candidate.
C14_SentinelsAfterProduction ==
  [][/\ stops' \in {stops, stops + 1}
     /\ stops' # stops =>
          /\ cpc = "stop"
          /\ stops < max_workers
          /\ password_queue' = Append(password_queue, [val |-> STOP, idx |-> 0])
     /\ stops > 0 =>
          /\ generator' = generator
          /\ cpc' \in {"stop", "join", "collect", "done"}
          /\ \A i \in 1..(Len(password_queue') - 1) :
               password_queue'[i].idx = 0 => password_queue'[i + 1].idx = 0
     /\ cpc' \in {"join", "collect", "done"} => stops' = max_workers]_vars

\* the run of MaxWorkers workers has ended after a publication cut the
\* production short: all sentinels were put with candidates left unpulled
C14_Witness ==
  /\ cpc = "done"
  /\ max_workers = MaxWorkers
  /\ stops = max_workers
  /\ generator # <<>>
  /\ sentinels_queued >= 1

\* C15: the result is taken only when every worker has exited; the run ends
\* with a password exactly when some worker published one, and that password
\* is the one a publishing worker held, otherwise with None.
C15_FinalizeAfterJoin ==
  /\ cpc \in {"collect", "done"} => \A w \in Workers : wpc[w] = "done"
  /\ cpc = "collect" =>
       (result_queue # <<>> <=> \E w \in Workers : exited_on[w] = "found")
  /\ cpc = "done" =>
       /\ found_password # None <=> \E w \in Workers : exited_on[w] = "found"
       /\ found_password # None =>
            \E w \in Workers : /\ exited_on[w] = "found"
                               /\ witem[w].val = found_password

\* a password published after the coordinator's last look at result_queue,
\* while it was putting sentinels or joining, is the one returned
C15_Witness ==
  /\ cpc = "done"
  /\ published_at = "draining"
  /\ found_password # None
  /\ found_password \in accepted

\* C17: a test that fails, by an exception of the archive library that
\* test_password_fast catches, counts as one attempt with its signal, puts
\* nothing on result_queue and leaves the worker in its loop, about to take
\* its next item.
C17_FaultIsFailedAttempt ==
  [][\A w \in Workers :
       (wpc[w] = "test" /\ wpc'[w] # "test"
          /\ ~test_password_fast(witem[w].val)) =>
         /\ tested'[witem[w].idx] = tested[witem[w].idx] + 1
         /\ progress_queue' = progress_queue + 1
         /\ result_queue' = result_queue
         /\ wpc'[w] = "get"
         /\ exited_on'[w] = "none"]_vars

\* with an archive the library cannot read every test faults: the run still
\* tests every candidate and ends with None, its workers stopped by sentinels
C17_Witness ==
  /\ ~zip_readable
  /\ cpc = "done"
  /\ found_password = None
  /\ Len(tested) >= 7
  /\ \A i \in 1..Len(tested) : tested[i] = 1
  /\ \A w \in Workers : exited_on[w] = "sentinel"

\* C19: after the first publication the coordinator puts at most one more
\* candidate, and once it has put that one it never pulls again.
C19_AtMostOnePushAfterPublication ==
  /\ pushed_after <= 1
  /\ pushed_after = 1 => cpc \in {"check", "stop", "join", "collect", "done"}

\* a run in which one more candidate was put after the publication
C19_Witness ==
  /\ cpc = "done"
  /\ found_password # None
  /\ pushed_after = 1
  /\ generator # <<>>

\* C20: a returned password is a candidate that a worker took from the queue,
\* tested, and the test accepted; it is not the sentinel.
C20_ResultIsSound ==
  (cpc = "done" /\ found_password # None) =>
    /\ zip_readable
    /\ found_password \in accepted
    /\ found_password # STOP
    /\ \E w \in Workers :
         /\ exited_on[w] = "found"
         /\ witem[w].val = found_password
         /\ witem[w].idx \in 1..NumCandidates
         /\ Candidates[witem[w].idx] = found_password
         /\ tested[witem[w].idx] = 1

\* a password is returned in a run where another worker took the candidate
\* 'STOP' for the sentinel
C20_Witness ==
  /\ cpc = "done"
  /\ found_password # None
  /\ \E w \in Workers : exited_on[w] = "candidate"

====
